---------------------------- MODULE Spec2Model ----------------------------
(***************************************************************************)
(* Paint-by-numbers worker (src/worker.js): the request handler, k-means   *)
(* clustering, palette optimisation, region growing, region merging, label *)
(* placement and the two output rasters.                                   *)
(*                                                                         *)
(* Pixel indices are 0-based as in the source (index = y*width + x); a     *)
(* raster's data is a function from 0..width*height-1 to RGB triples (the  *)
(* alpha byte of the input is never read by the worker).  JavaScript       *)
(* arrays are sequences; `undefined' array elements are Undefined.         *)
(***************************************************************************)
EXTENDS Integers, Sequences, FiniteSets, TLC

\* ------------------------------------------------------------------ bounds
MaxWidth == 3
MaxHeight == 2
MaxMixedArea == 6
MaxK == 4
MaxPaletteK == 3
MaxSample == 3
MaxClusterK == 3
MaxArea == 6
MaxPaletteLen == 2
MaxLabelArea == 9
MaxRectWidth == 5
MaxRectHeight == 3
MaxFilterArea == 12
MaxBorderArea == 6
MaxSampleLen == 6
MaxSampleSize == 4
MaxMergeArea == 4
MaxSmoothArea == 9
MaxFlatArea == 4
MaxImages == 2
MaxColorCount == 3

\* ------------------------------------------------------- program constants
SampleSize == 30000
InitialKFactor == 5
InitialKCap == 50
maxIterations == 30

\* --------------------------------------------------------------- JS values
Undefined == <<>>

Min2(a, b) == IF a <= b THEN a ELSE b

Max2(a, b) == IF a >= b THEN a ELSE b

\* Math.round(num / den) for num >= 0, den > 0 (round half up)
RoundDiv(num, den) == (2 * num + den) \div (2 * den)

\* Array.from({ length: n }) / new Array(n): ToLength clamps negatives to 0
ToLength(n) == Max2(n, 0)

Range0(n) == 0 .. (n - 1)

\* ------------------------------------------------------------------ colours
Black == <<0, 0, 0>>
White == <<255, 255, 255>>
Red == <<255, 0, 0>>
Green == <<0, 255, 0>>
Blue == <<0, 0, 255>>
Yellow == <<255, 255, 0>>
Dark == <<10, 10, 10>>
Dark1 == <<11, 10, 10>>
Dark2 == <<12, 10, 10>>

SaturatedColors == {Red, Green, Blue, Yellow}

\* square of euclideanDistance(p1, p2); sqrt is monotone, so every comparison
\* of two distances in the source is the comparison of their squares
SqDist(p1, p2) ==
    (p1[1] - p2[1]) * (p1[1] - p2[1]) +
    (p1[2] - p2[2]) * (p1[2] - p2[2]) +
    (p1[3] - p2[3]) * (p1[3] - p2[3])

\* 10000 * (0.2126*R + 0.7152*G + 0.0722*B)
Luminance(c) == 2126 * c[1] + 7152 * c[2] + 722 * c[3]

\* ------------------------------------------------------------- getPixels
getPixels(img) == [j \in 1 .. (img.width * img.height) |-> img.data[j - 1]]

\* ----------------------------------------------------------- samplePixels
RECURSIVE StrideFrom(_, _, _)
StrideFrom(pixels, i, step) ==
    IF i >= Len(pixels) THEN <<>>
    ELSE <<pixels[i + 1]>> \o StrideFrom(pixels, i + step, step)

samplePixels(pixels, sampleSize) ==
    IF Len(pixels) <= sampleSize THEN pixels
    ELSE StrideFrom(pixels, 0, Len(pixels) \div sampleSize)


\* ------------------------------------------------------------------- state
VARIABLES
    pc,                 \* position in the handler / pipeline
    imageData,          \* the request's raster: [width, height, data]
    k,                  \* the request's palette size
    options,            \* [colorThreshold, minRegionSize, thinnessThreshold]
    pixels,             \* kmeans: the pixel sample
    kk,                 \* kmeans: its parameter k
    centroids,          \* kmeans: centroids
    usedIndices,        \* kmeans: usedIndices
    iterations,         \* kmeans: iterations
    lastCentroids,      \* kmeans: lastCentroids, [def, val]
    clusters,           \* kmeans: clusters, [def, val]
    colors,             \* the palette (dominantColors)
    initialRegionMap,   \* generatePbnImage: pixel index -> region id
    initialRegions,     \* generatePbnImage: live region id -> region record
    regionId,           \* generatePbnImage: next region id
    scan,               \* generatePbnImage: i of the seed scan loop
    stack,              \* generatePbnImage: flood-fill stack
    sortedRegionIds,    \* generatePbnImage: merge order
    mergePos,           \* generatePbnImage: position in sortedRegionIds
    mergeLog,           \* what the last merge-loop iteration did
    pbn,                \* outline raster: [edges, labels]
    colored,            \* coloured raster: pixel index -> RGBA or Undefined
    exception,          \* message of the exception in flight, "" if none
    posted,             \* messages posted to the main thread
    originalImage,      \* script.js: originalImage, NoImage for null
    currentView,        \* script.js: currentView
    canvas,             \* script.js: what the visible canvas shows
    colorCountInput,    \* script.js: the value of the colour-count input
    pbnImageData,       \* script.js: pbnImageData, NoData for null
    coloredRegionsImageData, \* script.js: coloredRegionsImageData
    loading             \* script.js: the files being read and decoded

vars == <<pc, imageData, k, options, pixels, kk, centroids, usedIndices,
          iterations, lastCentroids, clusters, colors, initialRegionMap,
          initialRegions, regionId, scan, stack, sortedRegionIds, mergePos,
          mergeLog, pbn, colored, exception, posted, originalImage,
          currentView, canvas, colorCountInput, pbnImageData,
          coloredRegionsImageData, loading>>

pageVars == <<originalImage, currentView, canvas, colorCountInput,
              pbnImageData, coloredRegionsImageData, loading>>

requestVars == <<imageData, k, options>>

kmeansVars == <<pixels, kk, centroids, usedIndices, iterations, lastCentroids,
                clusters>>

regionVars == <<initialRegionMap, initialRegions, regionId, scan, stack,
                sortedRegionIds, mergePos, mergeLog>>

outputVars == <<pbn, colored>>

NoArray == [def |-> FALSE, val |-> <<>>]

SomeArray(a) == [def |-> TRUE, val |-> a]

\* ------------------------------------------------------------------ kmeans
TypeErrorIndex0 == "Cannot read properties of undefined (reading '0')"

TypeErrorPush == "Cannot read properties of undefined (reading 'push')"

\* centroids[i] of the source, i 0-based; reading past the end is undefined
CentroidAt(cs, i) == IF i + 1 <= Len(cs) THEN cs[i + 1] ELSE Undefined

\* lines 85-93: the first centroid index at minimum distance
RECURSIVE ClosestFrom(_, _, _, _, _, _)
ClosestFrom(pixel, cs, n, i, best, bestD) ==
    IF i >= n THEN best
    ELSE LET d == SqDist(pixel, CentroidAt(cs, i))
         IN  IF bestD < 0 \/ d < bestD
             THEN ClosestFrom(pixel, cs, n, i + 1, i, d)
             ELSE ClosestFrom(pixel, cs, n, i + 1, best, bestD)

closestCentroidIndex(pixel, cs, n) == ClosestFrom(pixel, cs, n, 0, 0, 0 - 1)

\* lines 83-95 throw on the first pixel when a centroid below k is undefined
\* (euclideanDistance reads p2[0]) or when k < 1 (clusters[0] is undefined)
AssignException(px, cs, n) ==
    IF Len(px) = 0 THEN ""
    ELSE IF \E i \in Range0(n) : CentroidAt(cs, i) = Undefined
         THEN TypeErrorIndex0
         ELSE IF n < 1 THEN TypeErrorPush ELSE ""

\* lines 83-95: clusters[j] holds, in sample order, the pixels closest to j
AssignClusters(px, cs, n) ==
    [j \in 1 .. ToLength(n) |->
        SelectSeq(px, LAMBDA p : closestCentroidIndex(p, cs, n) = j - 1)]

RECURSIVE SumChannel(_, _)
SumChannel(ps, c) ==
    IF ps = <<>> THEN 0 ELSE ps[1][c] + SumChannel(Tail(ps), c)

\* lines 100-102: the per-channel mean, rounded
ClusterMean(ps) ==
    <<RoundDiv(SumChannel(ps, 1), Len(ps)),
      RoundDiv(SumChannel(ps, 2), Len(ps)),
      RoundDiv(SumChannel(ps, 3), Len(ps))>>

\* pixels[Math.floor(Math.random() * pixels.length)]
RandomIndices(px) == IF Len(px) = 0 THEN {0} ELSE Range0(Len(px))

PixelAt(px, i) == IF i + 1 <= Len(px) THEN px[i + 1] ELSE Undefined

\* the colours a reseeded centroid can get: pixels[random index]
ReseedColors(px) == {PixelAt(px, i) : i \in RandomIndices(px)}

\* lines 97-107; reseedColor gives the pixel drawn for each empty cluster
NewCentroids(cl, n, reseedColor) ==
    [j \in 1 .. ToLength(n) |->
        IF Len(cl[j]) > 0 THEN ClusterMean(cl[j]) ELSE reseedColor[j]]

\* a convergence test that is never positive
ConvergedNever(last, cs, n) == FALSE

\* lines 112-121
Converged(last, cs, n) ==
    /\ last.def
    /\ \A i \in Range0(n) :
          /\ CentroidAt(last.val, i) # Undefined
          /\ SqDist(CentroidAt(last.val, i), CentroidAt(cs, i)) <= 1

\* -------------------------------------------------- generateOptimalPalette
\* Array.prototype.sort with a comparator a.key - b.key: a stable sort by
\* ascending key.  The element at position j moves behind every element with
\* a smaller key and every earlier element with the same key
SortedPosition(seq, j) ==
    1 + Cardinality({i \in 1 .. Len(seq) :
                        \/ seq[i].key < seq[j].key
                        \/ (seq[i].key = seq[j].key /\ i < j)})

SortByKey(seq) ==
    [r \in 1 .. Len(seq) |->
        seq[CHOOSE j \in 1 .. Len(seq) : SortedPosition(seq, j) = r]]

Values(keyed) == [j \in 1 .. Len(keyed) |-> keyed[j].val]

\* a palette returned in selection order
SortByLuminanceSkipped(cs) == cs

\* lines 130-134 and 176-180; sort moves undefined elements to the end
\* without calling the comparator
SortByLuminance(cs) ==
    LET defined == SelectSeq(cs, LAMBDA c : c # Undefined)
    IN  Values(SortByKey([j \in 1 .. Len(defined) |->
                             [key |-> Luminance(defined[j]), val |-> defined[j]]]))
            \o SelectSeq(cs, LAMBDA c : c = Undefined)

\* lines 137-140: one {color, size} per centroid, zero sizes dropped
WeightedCentroids(cs, cl) ==
    SelectSeq([j \in 1 .. Len(cs) |->
                  [color |-> cs[j],
                   size |-> IF j <= Len(cl) THEN Len(cl[j]) ELSE 0]],
              LAMBDA c : c.size > 0)

\* lines 142-145: by descending size
Candidates(cs, cl) ==
    LET weighted == WeightedCentroids(cs, cl)
    IN  Values(SortByKey([j \in 1 .. Len(weighted) |->
                             [key |-> 0 - weighted[j].size,
                              val |-> weighted[j].color]]))

\* lines 155-158: the distance of a candidate to the nearest palette colour
MinSqDistToPalette(candidate, finalPalette) ==
    LET ds == {SqDist(candidate, finalPalette[j]) : j \in 1 .. Len(finalPalette)}
    IN  CHOOSE d \in ds : \A e \in ds : d <= e

\* a selection that takes the next candidate by cluster size
BestCandidateNext(cands, finalPalette) == 1

\* lines 152-163: the first candidate whose minimum distance is the largest
BestCandidate(cands, finalPalette) ==
    CHOOSE b \in 1 .. Len(cands) :
        /\ \A j \in 1 .. Len(cands) :
              MinSqDistToPalette(cands[j], finalPalette)
                  <= MinSqDistToPalette(cands[b], finalPalette)
        /\ \A j \in 1 .. (b - 1) :
              MinSqDistToPalette(cands[j], finalPalette)
                  < MinSqDistToPalette(cands[b], finalPalette)

RemoveAt(seq, i) == SubSeq(seq, 1, i - 1) \o SubSeq(seq, i + 1, Len(seq))

\* lines 151-174
RECURSIVE GreedySelect(_, _, _)
GreedySelect(finalPalette, cands, n) ==
    IF Len(finalPalette) < n /\ Len(cands) > 0
    THEN LET b == BestCandidate(cands, finalPalette)
         IN  GreedySelect(Append(finalPalette, cands[b]), RemoveAt(cands, b), n)
    ELSE finalPalette

\* lines 144-174: the palette before the final sort
SelectPalette(cs, cl, n) ==
    LET cands == Candidates(cs, cl)
    IN  IF Len(cands) > 0
        THEN GreedySelect(<<cands[1]>>, Tail(cands), n)
        ELSE <<>>

\* lines 128-181
generateOptimalPalette(cs, cl, n) ==
    IF Len(cs) <= n THEN SortByLuminance(cs)
    ELSE SortByLuminance(SelectPalette(cs, cl, n))

\* -------------------------------------------------------- findClosestColor
NoColor == 0 - 1

\* n*n times the squared distance from the average sum/n to colour c
ScaledSqDist(sum, n, c) ==
    (sum[1] - n * c[1]) * (sum[1] - n * c[1]) +
    (sum[2] - n * c[2]) * (sum[2] - n * c[2]) +
    (sum[3] - n * c[3]) * (sum[3] - n * c[3])

\* lines 183-194 applied to the average colour sum/n: the 0-based position of
\* the first palette colour at minimum distance; colors[0] of an empty palette
\* is undefined (NoColor).  A region's colour is kept as this position: the
\* source keeps the palette entry itself and compares entries with ===, and
\* findClosestColor never returns the later of two equal entries
findClosestColor(sum, n, cols) ==
    IF Len(cols) = 0 THEN NoColor
    ELSE (CHOOSE j \in 1 .. Len(cols) :
            /\ \A i \in 1 .. Len(cols) :
                  ScaledSqDist(sum, n, cols[j]) <= ScaledSqDist(sum, n, cols[i])
            /\ \A i \in 1 .. (j - 1) :
                  ScaledSqDist(sum, n, cols[j]) < ScaledSqDist(sum, n, cols[i])) - 1

\* --------------------------------------------------- findBestLabelPosition
\* erosion that only looks at the left and upper neighbours
PixelsToRemoveOneSided(currentPixels, width) ==
    {p \in currentPixels :
        \E n \in {p - 1, p - width} : n \notin currentPixels}

\* lines 241-249: the working-set pixels with a neighbour outside the set
PixelsToRemove(currentPixels, width) ==
    {p \in currentPixels :
        \E n \in {p - 1, p + 1, p - width, p + width} : n \notin currentPixels}

\* lines 238-256: the set the loop stops at
RECURSIVE Erode(_, _)
Erode(currentPixels, width) ==
    LET pixelsToRemove == PixelsToRemove(currentPixels, width)
    IN  IF pixelsToRemove = currentPixels THEN currentPixels
        ELSE Erode(currentPixels \ pixelsToRemove, width)

RECURSIVE SumX(_, _)
SumX(ps, width) ==
    IF ps = {} THEN 0
    ELSE LET p == CHOOSE q \in ps : TRUE
         IN  (p % width) + SumX(ps \ {p}, width)

RECURSIVE SumY(_, _)
SumY(ps, width) ==
    IF ps = {} THEN 0
    ELSE LET p == CHOOSE q \in ps : TRUE
         IN  (p \div width) + SumY(ps \ {p}, width)

SeqToSet(seq) == {seq[j] : j \in 1 .. Len(seq)}

\* lines 234-267
findBestLabelPosition(region, width) ==
    IF Len(region.pixels) = 0 THEN [x |-> 0 - 1, y |-> 0 - 1]
    ELSE LET lastPixels == Erode(SeqToSet(region.pixels), width)
         IN  [x |-> RoundDiv(SumX(lastPixels, width), Cardinality(lastPixels)),
              y |-> RoundDiv(SumY(lastPixels, width), Cardinality(lastPixels))]

\* ------------------------------------------------- generatePbnImage: growing
\* euclideanDistance(a, b) < threshold, for an integer threshold
WithinThreshold(a, b, threshold) ==
    threshold > 0 /\ SqDist(a, b) < threshold * threshold

\* line 308 / 353: the candidate neighbour indices, in the source's order
NeighborList(pixelIndex, width) ==
    <<pixelIndex - width, pixelIndex + width, pixelIndex - 1, pixelIndex + 1>>

\* a neighbour test without the row guard
isSameRowAlways(neighborIndex, pixelIndex, width) == TRUE

\* line 311
isSameRow(neighborIndex, pixelIndex, width) ==
    \/ (neighborIndex % width) = (pixelIndex % width)
    \/ (neighborIndex \div width) = (pixelIndex \div width)

\* lines 310-314: whether the neighbour joins the region grown from seed
Joins(neighborIndex, pixelIndex, map, img, seed, threshold) ==
    /\ neighborIndex >= 0
    /\ neighborIndex < img.width * img.height
    /\ map[neighborIndex] = 0
    /\ isSameRow(neighborIndex, pixelIndex, img.width)
    /\ WithinThreshold(img.data[seed], img.data[neighborIndex], threshold)

\* lines 309-320 over the neighbour list from position j: [map, stack]
RECURSIVE PushNeighbors(_, _, _, _, _, _, _, _, _)
PushNeighbors(ns, j, pixelIndex, map, stk, img, seed, threshold, id) ==
    IF j > Len(ns) THEN [map |-> map, stack |-> stk]
    ELSE IF Joins(ns[j], pixelIndex, map, img, seed, threshold)
         THEN PushNeighbors(ns, j + 1, pixelIndex,
                            [map EXCEPT ![ns[j]] = id], Append(stk, ns[j]),
                            img, seed, threshold, id)
         ELSE PushNeighbors(ns, j + 1, pixelIndex, map, stk,
                            img, seed, threshold, id)

\* a seed that is pushed without being marked
SeedMapUnmarked(map, i, id) == map

\* line 294
SeedMap(map, i, id) == [map EXCEPT ![i] = id]

\* line 291
NewRegion(id, img) ==
    [id |-> id, pixels |-> <<>>, sumR |-> 0, sumG |-> 0, sumB |-> 0,
     minX |-> img.width, minY |-> img.height, maxX |-> 0 - 1, maxY |-> 0 - 1,
     color |-> NoColor]

\* lines 297-306
AddPixel(region, pixelIndex, img) ==
    LET x == pixelIndex % img.width
        y == pixelIndex \div img.width
        c == img.data[pixelIndex]
    IN  [region EXCEPT
            !.pixels = Append(@, pixelIndex),
            !.sumR = @ + c[1], !.sumG = @ + c[2], !.sumB = @ + c[3],
            !.minX = Min2(@, x), !.maxX = Max2(@, x),
            !.minY = Min2(@, y), !.maxY = Max2(@, y)]

\* ------------------------------------------------- generatePbnImage: merging
\* line 327-335: every region gets the palette colour closest to its average
AssignColor(region, cols) ==
    [region EXCEPT
        !.color = findClosestColor(<<region.sumR, region.sumG, region.sumB>>,
                                   Len(region.pixels), cols)]

\* line 338: Object.keys lists the ids ascending; the sort by pixel count is stable
IdsAscending(regions) ==
    [j \in 1 .. Cardinality(DOMAIN regions) |->
        CHOOSE id \in DOMAIN regions :
            Cardinality({i \in DOMAIN regions : i < id}) = j - 1]

SortedRegionIds(regions) ==
    LET ids == IdsAscending(regions)
    IN  Values(SortByKey([j \in 1 .. Len(ids) |->
                             [key |-> Len(regions[ids[j]].pixels), val |-> ids[j]]]))

\* a size test that never finds a region small
isSmallNever(region, minRegionSize) == FALSE

\* line 345
isSmall(region, minRegionSize) == Len(region.pixels) < minRegionSize

\* line 346: the ratio is taken of the image's width and height
isThin(region, img, thinnessThreshold) ==
    LET regionWidth == region.maxX - region.minX + 1
        regionHeight == region.maxY - region.minY + 1
    IN  /\ Min2(regionWidth, regionHeight) > 0
        /\ Max2(img.width, img.height)
              > thinnessThreshold * Min2(img.width, img.height)

\* lines 354-360 for one pixel of the region, from position j of its
\* neighbour list: the Set neighborIds as a duplicate-free sequence in
\* insertion order
RECURSIVE AddNeighborIds(_, _, _, _, _, _)
AddNeighborIds(ns, j, acc, region, map, regions) ==
    IF j > Len(ns) THEN acc
    ELSE LET neighborIndex == ns[j]
             inRange == neighborIndex >= 0 /\ neighborIndex < Cardinality(DOMAIN map)
             neighborId == IF inRange THEN map[neighborIndex] ELSE 0
         IN  IF /\ inRange
                /\ neighborId # region.id
                /\ neighborId \in DOMAIN regions
                /\ neighborId \notin SeqToSet(acc)
             THEN AddNeighborIds(ns, j + 1, Append(acc, neighborId), region, map, regions)
             ELSE AddNeighborIds(ns, j + 1, acc, region, map, regions)

\* lines 351-362
RECURSIVE NeighborIdsFrom(_, _, _, _, _, _)
NeighborIdsFrom(region, j, acc, map, regions, width) ==
    IF j > Len(region.pixels) THEN acc
    ELSE NeighborIdsFrom(region, j + 1,
            AddNeighborIds(NeighborList(region.pixels[j], width), 1, acc,
                           region, map, regions),
            map, regions, width)

\* a neighbour set that holds the region itself
NeighborIdsSelf(region, map, regions, width) == <<region.id>>

NeighborIds(region, map, regions, width) ==
    NeighborIdsFrom(region, 1, <<>>, map, regions, width)

\* a choice that takes the first neighbour enumerated
BestNeighborFirst(neighborIds, region, regions, cols) == neighborIds[1]

\* lines 364-378 from position j of neighborIds; minDiff < 0 stands for Infinity
RECURSIVE BestNeighborFrom(_, _, _, _, _, _, _)
BestNeighborFrom(neighborIds, j, best, minDiff, region, regions, cols) ==
    IF j > Len(neighborIds) THEN best
    ELSE LET neighbor == regions[neighborIds[j]]
         IN  IF neighbor.color = region.color THEN neighborIds[j]
             ELSE LET diff == SqDist(cols[region.color + 1], cols[neighbor.color + 1])
                  IN  IF minDiff < 0 \/ diff < minDiff
                      THEN BestNeighborFrom(neighborIds, j + 1, neighborIds[j], diff,
                                            region, regions, cols)
                      ELSE BestNeighborFrom(neighborIds, j + 1, best, minDiff,
                                            region, regions, cols)

BestNeighborId(neighborIds, region, regions, cols) ==
    BestNeighborFrom(neighborIds, 1, 0 - 1, 0 - 1, region, regions, cols)

\* a merge that leaves the region map alone
MergeMapStale(map, region, bestNeighborId) == map

\* lines 382-384
MergeMap(map, region, bestNeighborId) ==
    [p \in DOMAIN map |->
        IF p \in SeqToSet(region.pixels) THEN bestNeighborId ELSE map[p]]

\* a merge that folds the bounding box but drops the pixel list
AbsorbBoundsOnly(targetRegion, region) ==
    [targetRegion EXCEPT
        !.minX = Min2(@, region.minX), !.minY = Min2(@, region.minY),
        !.maxX = Max2(@, region.maxX), !.maxY = Max2(@, region.maxY)]

\* a merge after which the target carries the merged region's colour
AbsorbTakingColor(targetRegion, region) ==
    [targetRegion EXCEPT
        !.pixels = @ \o region.pixels,
        !.color = region.color,
        !.minX = Min2(@, region.minX), !.minY = Min2(@, region.minY),
        !.maxX = Max2(@, region.maxX), !.maxY = Max2(@, region.maxY)]

\* lines 385-390
Absorb(targetRegion, region) ==
    [targetRegion EXCEPT
        !.pixels = @ \o region.pixels,
        !.minX = Min2(@, region.minX), !.minY = Min2(@, region.minY),
        !.maxX = Max2(@, region.maxX), !.maxY = Max2(@, region.maxY)]

\* lines 381, 385-391
MergeRegions(regions, region, bestNeighborId) ==
    [id \in DOMAIN regions \ {region.id} |->
        IF id = bestNeighborId THEN Absorb(regions[id], region) ELSE regions[id]]

\* ----------------------------------------------- generatePbnImage: rendering
\* lines 405-418: the boundary segments, as <<x1, y1, x2, y2>>
Edges(map, width, height) ==
    {<<x + 1, y, x + 1, y + 1>> :
        <<x, y>> \in {c \in Range0(width) \X Range0(height) :
            c[1] < width - 1 /\ map[c[2] * width + c[1] + 1] # map[c[2] * width + c[1]]}}
    \cup
    {<<x, y + 1, x + 1, y + 1>> :
        <<x, y>> \in {c \in Range0(width) \X Range0(height) :
            c[2] < height - 1 /\ map[c[2] * width + c[1] + width] # map[c[2] * width + c[1]]}}

\* labels drawn for every live region, whatever its size
LabelsForAll(regions, width, minRegionSize) ==
    {[id |-> id,
      text |-> regions[id].color + 1,
      x |-> findBestLabelPosition(regions[id], width).x,
      y |-> findBestLabelPosition(regions[id], width).y] :
        id \in DOMAIN regions}

\* lines 425-435: the labels drawn, one per live region of at least
\* minRegionSize pixels whose colour is found in the palette
Labels(regions, width, minRegionSize) ==
    {[id |-> id,
      text |-> regions[id].color + 1,
      x |-> findBestLabelPosition(regions[id], width).x,
      y |-> findBestLabelPosition(regions[id], width).y] :
        id \in {i \in DOMAIN regions :
                  /\ ~(Len(regions[i].pixels) < minRegionSize)
                  /\ regions[i].color # NoColor}}

IndexSizeError == "Failed to construct 'ImageData': The source width is zero or not a number."

Transparent == <<0, 0, 0, 0>>

\* a constructor that accepts an empty raster
ColoredExceptionNone(map, regions, width, height) == ""

\* line 438: new ImageData(width, height) throws an IndexSizeError when either
\* side is zero; lines 441-442: color[0] of an undefined colour throws
ColoredException(map, regions, width, height) ==
    IF width = 0 \/ height = 0 THEN IndexSizeError
    ELSE IF \E p \in DOMAIN map :
               /\ map[p] > 0
               /\ map[p] \in DOMAIN regions
               /\ regions[map[p]].color = NoColor
         THEN TypeErrorIndex0
         ELSE ""

\* a coloured raster whose alpha channel is never written
ColoredImageNoAlpha(map, regions, cols) ==
    [p \in DOMAIN map |->
        IF map[p] > 0 /\ map[p] \in DOMAIN regions
        THEN cols[regions[map[p]].color + 1] \o <<0>>
        ELSE Transparent]

\* lines 438-448
ColoredImage(map, regions, cols) ==
    [p \in DOMAIN map |->
        IF map[p] > 0 /\ map[p] \in DOMAIN regions
        THEN cols[regions[map[p]].color + 1] \o <<255>>
        ELSE Transparent]

\* ----------------------------------------------------------------- actions
NoMerge == [id |-> 0, live |-> FALSE, candidate |-> FALSE, neighborIds |-> <<>>,
            target |-> 0 - 1, color |-> NoColor]

NoPbn == [edges |-> {}, labels |-> {}]

\* the locals before their function is entered
KmeansIdle ==
    /\ pixels = <<>> /\ kk = 0 /\ centroids = <<>> /\ usedIndices = {}
    /\ iterations = 0 /\ lastCentroids = NoArray /\ clusters = NoArray

RegionsIdle ==
    /\ initialRegionMap = <<>> /\ initialRegions = <<>> /\ regionId = 1
    /\ scan = 0 /\ stack = <<>> /\ sortedRegionIds = <<>> /\ mergePos = 1
    /\ mergeLog = NoMerge

OutputIdle == pbn = NoPbn /\ colored = <<>>

\* script.js lines 12-17: the page before a file is chosen
NoImage == [id |-> 0, width |-> 0, height |-> 0]

NoData == [view |-> "none", image |-> 0, k |-> 0]

Blank == [view |-> "blank", image |-> 0, k |-> 0]

PageIdle ==
    /\ originalImage = NoImage /\ currentView = "original" /\ canvas = Blank
    /\ colorCountInput = 0
    /\ pbnImageData = NoData /\ coloredRegionsImageData = NoData
    /\ loading = {}

Throw(message) == exception' = message /\ pc' = "thrown"

\* lines 5-10: the request is unpacked, the pixels sampled, kmeans entered
Receive ==
    /\ pc = "start"
    /\ pixels' = samplePixels(getPixels(imageData), SampleSize)
    /\ kk' = Min2(k * InitialKFactor, InitialKCap)
    /\ centroids' = <<>>
    /\ usedIndices' = {}
    /\ pc' = "kmeans_init"
    /\ UNCHANGED <<pageVars, requestVars, iterations, lastCentroids, clusters, colors,
                   regionVars, outputVars, exception, posted>>

\* lines 69-75: one draw of an index not used before (a draw of a used index
\* changes nothing)
KmeansPick ==
    /\ pc = "kmeans_init"
    /\ Len(centroids) < kk
    /\ Len(centroids) < Len(pixels)
    /\ \E index \in Range0(Len(pixels)) \ usedIndices :
          /\ centroids' = Append(centroids, pixels[index + 1])
          /\ usedIndices' = usedIndices \cup {index}
    /\ UNCHANGED <<pc, pageVars, requestVars, pixels, kk, iterations, lastCentroids,
                   clusters, colors, regionVars, outputVars, exception, posted>>

\* lines 69, 77-80: the seeding loop ends
KmeansStart ==
    /\ pc = "kmeans_init"
    /\ ~(Len(centroids) < kk /\ Len(centroids) < Len(pixels))
    /\ iterations' = 0
    /\ pc' = "kmeans_loop"
    /\ UNCHANGED <<pageVars, requestVars, pixels, kk, centroids, usedIndices,
                   lastCentroids, clusters, colors, regionVars, outputVars,
                   exception, posted>>

\* lines 82-124: one iteration of the main loop
KmeansIterate ==
    /\ pc = "kmeans_loop"
    /\ iterations < maxIterations
    /\ IF AssignException(pixels, centroids, kk) # ""
       THEN /\ Throw(AssignException(pixels, centroids, kk))
            /\ clusters' = SomeArray([j \in 1 .. ToLength(kk) |-> <<>>])
            /\ UNCHANGED <<centroids, lastCentroids, iterations>>
       ELSE \E cl \in {AssignClusters(pixels, centroids, kk)} :
            \E reseedColor \in [{j \in 1 .. ToLength(kk) : Len(cl[j]) = 0}
                                   -> ReseedColors(pixels)] :
            \E newCentroids \in {NewCentroids(cl, kk, reseedColor)} :
                       /\ clusters' = SomeArray(cl)
                       /\ lastCentroids' = SomeArray(centroids)
                       /\ centroids' = newCentroids
                       /\ IF Converged(SomeArray(centroids), newCentroids, kk)
                          THEN pc' = "kmeans_done" /\ iterations' = iterations
                          ELSE pc' = pc /\ iterations' = iterations + 1
                       /\ UNCHANGED exception
    /\ UNCHANGED <<pageVars, requestVars, pixels, kk, usedIndices, colors, regionVars,
                   outputVars, posted>>

\* line 82: the loop ends after maxIterations iterations
KmeansExit ==
    /\ pc = "kmeans_loop"
    /\ ~(iterations < maxIterations)
    /\ pc' = "kmeans_done"
    /\ UNCHANGED <<pageVars, requestVars, kmeansVars, colors, regionVars, outputVars,
                   exception, posted>>

\* lines 11-12: kmeans has returned { centroids, clusters }; its other locals
\* are gone
Palette ==
    /\ pc = "kmeans_done"
    /\ colors' = generateOptimalPalette(centroids, clusters.val, k)
    /\ usedIndices' = {}
    /\ iterations' = 0
    /\ lastCentroids' = NoArray
    /\ pc' = "pbn_start"
    /\ UNCHANGED <<pageVars, requestVars, pixels, kk, centroids, clusters, regionVars,
                   outputVars, exception, posted>>

\* lines 14, 278-287: generatePbnImage is entered; kmeansResult and the
\* pixel sample are not read again
PbnStart ==
    /\ pc = "pbn_start"
    /\ initialRegionMap' = [p \in Range0(imageData.width * imageData.height) |-> 0]
    /\ initialRegions' = <<>>
    /\ regionId' = 1
    /\ scan' = 0
    /\ pixels' = <<>>
    /\ kk' = 0
    /\ centroids' = <<>>
    /\ clusters' = NoArray
    /\ pc' = "scan"
    /\ UNCHANGED <<pageVars, requestVars, usedIndices, iterations, lastCentroids, colors,
                   stack, sortedRegionIds, mergePos, mergeLog, outputVars,
                   exception, posted>>

\* lines 288-294: the scan reaches pixel i; an unassigned pixel seeds a region
ScanSeed ==
    /\ pc = "scan"
    /\ scan < imageData.width * imageData.height
    /\ IF initialRegionMap[scan] = 0
       THEN /\ initialRegions' =
                   [id \in DOMAIN initialRegions \cup {regionId} |->
                       IF id = regionId THEN NewRegion(regionId, imageData)
                       ELSE initialRegions[id]]
            /\ stack' = <<scan>>
            /\ initialRegionMap' = SeedMap(initialRegionMap, scan, regionId)
            /\ pc' = "fill"
            /\ UNCHANGED scan
       ELSE /\ scan' = scan + 1
            /\ UNCHANGED <<pc, initialRegions, stack, initialRegionMap>>
    /\ UNCHANGED <<pageVars, requestVars, kmeansVars, colors, regionId, sortedRegionIds,
                   mergePos, mergeLog, outputVars, exception, posted>>

\* lines 296-320: one pixel is popped, added to the region, its neighbours pushed
FillPop ==
    /\ pc = "fill"
    /\ Len(stack) > 0
    /\ LET pixelIndex == stack[Len(stack)]
           pushed == PushNeighbors(NeighborList(pixelIndex, imageData.width), 1,
                                   pixelIndex, initialRegionMap,
                                   SubSeq(stack, 1, Len(stack) - 1), imageData,
                                   scan, options.colorThreshold, regionId)
       IN  /\ initialRegions' =
                  [initialRegions EXCEPT
                      ![regionId] = AddPixel(@, pixelIndex, imageData)]
           /\ initialRegionMap' = pushed.map
           /\ stack' = pushed.stack
    /\ UNCHANGED <<pc, pageVars, requestVars, kmeansVars, colors, regionId, scan,
                   sortedRegionIds, mergePos, mergeLog, outputVars, exception,
                   posted>>

\* lines 295, 322: the stack is empty, the region is complete
FillEnd ==
    /\ pc = "fill"
    /\ Len(stack) = 0
    /\ regionId' = regionId + 1
    /\ scan' = scan + 1
    /\ pc' = "scan"
    /\ UNCHANGED <<pageVars, requestVars, kmeansVars, colors, initialRegionMap,
                   initialRegions, stack, sortedRegionIds, mergePos, mergeLog,
                   outputVars, exception, posted>>

\* line 288: the scan loop ends
ScanEnd ==
    /\ pc = "scan"
    /\ ~(scan < imageData.width * imageData.height)
    /\ pc' = "grown"
    /\ UNCHANGED <<pageVars, requestVars, kmeansVars, colors, regionVars, outputVars,
                   exception, posted>>

\* lines 327-338: colours are assigned (no region is empty, so none is
\* deleted) and the merge order is fixed
AssignColors ==
    /\ pc = "grown"
    /\ \E assigned \in {[id \in DOMAIN initialRegions |->
                            AssignColor(initialRegions[id], colors)]} :
       \E sorted \in {SortedRegionIds(assigned)} :
          /\ initialRegions' = assigned
          /\ sortedRegionIds' = sorted
    /\ mergePos' = 1
    /\ pc' = "merge"
    /\ UNCHANGED <<pageVars, requestVars, kmeansVars, colors, initialRegionMap, regionId,
                   scan, stack, mergeLog, outputVars, exception, posted>>

\* lines 339-393: one iteration of the merge loop
MergeStep ==
    /\ pc = "merge"
    /\ mergePos <= Len(sortedRegionIds)
    /\ LET id == sortedRegionIds[mergePos]
           live == id \in DOMAIN initialRegions
           region == initialRegions[id]
           candidate == live /\ (\/ isSmall(region, options.minRegionSize)
                                 \/ isThin(region, imageData, options.thinnessThreshold))
           neighborIds == IF candidate
                          THEN NeighborIds(region, initialRegionMap, initialRegions,
                                           imageData.width)
                          ELSE <<>>
           bestNeighborId == IF Len(neighborIds) > 0
                             THEN BestNeighborId(neighborIds, region, initialRegions,
                                                 colors)
                             ELSE 0 - 1
       IN  /\ IF bestNeighborId # 0 - 1
              THEN /\ initialRegionMap' = MergeMap(initialRegionMap, region, bestNeighborId)
                   /\ initialRegions' = MergeRegions(initialRegions, region, bestNeighborId)
              ELSE UNCHANGED <<initialRegionMap, initialRegions>>
           /\ mergeLog' = [id |-> id, live |-> live, candidate |-> candidate,
                           neighborIds |-> neighborIds, target |-> bestNeighborId,
                           color |-> IF live THEN region.color ELSE NoColor]
    /\ mergePos' = mergePos + 1
    /\ UNCHANGED <<pc, pageVars, requestVars, kmeansVars, colors, regionId, scan, stack,
                   sortedRegionIds, outputVars, exception, posted>>

\* line 339: the merge loop ends
MergeEnd ==
    /\ pc = "merge"
    /\ mergePos > Len(sortedRegionIds)
    /\ pc' = "draw"
    /\ UNCHANGED <<pageVars, requestVars, kmeansVars, colors, regionVars, outputVars,
                   exception, posted>>

\* lines 396-435: the outline raster
Draw ==
    /\ pc = "draw"
    /\ pbn' = [edges |-> Edges(initialRegionMap, imageData.width, imageData.height),
               labels |-> Labels(initialRegions, imageData.width, options.minRegionSize)]
    /\ pc' = "color"
    /\ UNCHANGED <<pageVars, requestVars, kmeansVars, colors, regionVars, colored,
                   exception, posted>>

\* lines 438-453: the coloured raster, and the return
Colored ==
    /\ pc = "color"
    /\ LET message == ColoredException(initialRegionMap, initialRegions,
                                       imageData.width, imageData.height)
       IN  IF message # ""
           THEN Throw(message) /\ UNCHANGED colored
           ELSE /\ colored' = ColoredImage(initialRegionMap, initialRegions, colors)
                /\ pc' = "pbn_done"
                /\ UNCHANGED exception
    /\ UNCHANGED <<pageVars, requestVars, kmeansVars, colors, regionVars, pbn, posted>>

\* lines 17-22
SuccessMessage(cols, outline, fill) ==
    <<[type |-> "success", dominantColors |-> cols, pbnImageData |-> outline,
       coloredRegionsImageData |-> fill, message |-> ""]>>

\* a catch block that swallows the exception
ErrorMessageSwallowed(message) == <<>>

\* lines 24-28
ErrorMessage(message) ==
    <<[type |-> "error", dominantColors |-> <<>>, pbnImageData |-> NoPbn,
       coloredRegionsImageData |-> <<>>, message |-> message]>>

\* lines 16-22
PostSuccess ==
    /\ pc = "pbn_done"
    /\ posted' = posted \o SuccessMessage(colors, pbn, colored)
    /\ pc' = "done"
    /\ UNCHANGED <<pageVars, requestVars, kmeansVars, colors, regionVars, outputVars,
                   exception>>

\* lines 23-29
Catch ==
    /\ pc = "thrown"
    /\ posted' = posted \o ErrorMessage(exception)
    /\ pc' = "done"
    /\ UNCHANGED <<pageVars, requestVars, kmeansVars, colors, regionVars, outputVars,
                   exception>>

\* ------------------------------------------------------------------ inputs
Raster(w, h, data) == [width |-> w, height |-> h, data |-> data]

UniformRasters(w, h, cs) ==
    {Raster(w, h, [p \in Range0(w * h) |-> c]) : c \in cs}

\* the first pixel of one colour, the rest of another
OddPixelRasters(w, h, a, b) ==
    IF w * h < 2 THEN {}
    ELSE {Raster(w, h, [p \in Range0(w * h) |-> IF p = 0 THEN a ELSE b])}

\* the 2x2 rasters whose pixels are a rotation of the four colours of cs
RotatedRasters(cs) ==
    {Raster(2, 2, [p \in Range0(4) |-> cs[((p + r) % 4) + 1]]) : r \in Range0(4)}

AllRasters(w, h, cs) == {Raster(w, h, d) : d \in [Range0(w * h) -> cs]}

\* the rasters every request set holds: zero-area ones, uniform ones, and
\* the 2x2 rasters of four saturated colours
PlainRasters ==
    UNION {UniformRasters(w, h, {Dark, Red})
             \cup (IF w = 2 /\ h = 2
                   THEN RotatedRasters(<<Red, Green, Blue, Yellow>>) ELSE {}) :
           <<w, h>> \in (0 .. MaxWidth) \X (0 .. MaxHeight)}

\* ... and two-tone rasters of up to MaxMixedArea pixels
RequestRasters ==
    PlainRasters
      \cup UNION {IF w * h <= MaxMixedArea
                  THEN OddPixelRasters(w, h, Dark, Dark2) ELSE {} :
                  <<w, h>> \in (0 .. MaxWidth) \X (0 .. MaxHeight)}

RequestOptions ==
    [colorThreshold : {0, 3}, minRegionSize : {1, 7}, thinnessThreshold : {1}]

NoOptions == [colorThreshold |-> 0, minRegionSize |-> 0, thinnessThreshold |-> 0]

NoRaster == Raster(0, 0, <<>>)

\* a request arrives at self.onmessage
Init ==
    /\ pc = "start"
    /\ imageData \in RequestRasters
    /\ k \in (0 - 1) .. MaxK
    /\ options \in RequestOptions
    /\ KmeansIdle /\ RegionsIdle /\ OutputIdle /\ PageIdle
    /\ colors = <<>>
    /\ exception = ""
    /\ posted = <<>>

Next ==
    \/ Receive
    \/ KmeansPick
    \/ KmeansStart
    \/ KmeansIterate
    \/ KmeansExit
    \/ Palette
    \/ PbnStart
    \/ ScanSeed
    \/ FillPop
    \/ FillEnd
    \/ ScanEnd
    \/ AssignColors
    \/ MergeStep
    \/ MergeEnd
    \/ Draw
    \/ Colored
    \/ PostSuccess
    \/ Catch

Spec == Init /\ [][Next]_vars

\* the handler runs to completion once it is invoked: no other code runs on
\* the worker's thread, so a step that can be taken is taken
FairInit == Init /\ imageData \in PlainRasters

FairSpec == FairInit /\ [][Next]_vars /\ WF_vars(Next)

\* ---- kmeans(pixels, initialK) followed by generateOptimalPalette(.., k) ----
SampleColors == {Dark, Dark1, White}

Samples == UNION {[1 .. n -> SampleColors] : n \in 1 .. MaxSample}

InitPalette ==
    /\ pc = "kmeans_init"
    /\ imageData = NoRaster
    /\ options = NoOptions
    /\ k \in 1 .. MaxPaletteK
    /\ pixels \in Samples
    /\ kk \in 1 .. MaxClusterK
    /\ centroids = <<>> /\ usedIndices = {} /\ iterations = 0
    /\ lastCentroids = NoArray /\ clusters = NoArray
    /\ RegionsIdle /\ OutputIdle /\ PageIdle
    /\ colors = <<>>
    /\ exception = ""
    /\ posted = <<>>

NextPalette ==
    \/ KmeansPick
    \/ KmeansStart
    \/ KmeansIterate
    \/ KmeansExit
    \/ Palette

SpecPalette == InitPalette /\ [][NextPalette]_vars

\* ---------------- generatePbnImage(imageData, colors, options) on its own ----
RegionColors == {Dark, Dark2, White}

RegionRasters ==
    UNION {AllRasters(w, h, {Dark, Dark2}) :
           <<w, h>> \in {d \in (1 .. MaxArea) \X (1 .. MaxArea) : d[1] * d[2] <= MaxArea}}

\* the palettes: luminance-sorted sequences of distinct colours
RegionPalettes ==
    {SortByLuminance(f) :
        f \in UNION {{g \in [1 .. n -> RegionColors] :
                        \A i, j \in 1 .. n : i # j => g[i] # g[j]} :
                     n \in 1 .. MaxPaletteLen}}

RegionOptions ==
    [colorThreshold : {1, 3}, minRegionSize : {1, 3}, thinnessThreshold : {1, 3}]

InitRegions ==
    /\ pc = "pbn_start"
    /\ imageData \in RegionRasters
    /\ colors \in RegionPalettes
    /\ options \in RegionOptions
    /\ k = Len(colors)
    /\ KmeansIdle /\ RegionsIdle /\ OutputIdle /\ PageIdle
    /\ exception = ""
    /\ posted = <<>>

NextRegions ==
    \/ PbnStart
    \/ ScanSeed
    \/ FillPop
    \/ FillEnd
    \/ ScanEnd
    \/ AssignColors
    \/ MergeStep
    \/ MergeEnd
    \/ Draw
    \/ Colored

SpecRegions == InitRegions /\ [][NextRegions]_vars

\* ------------------------------ findBestLabelPosition(region, width) on its own ----
\* the pixel indices of S in ascending order
AscendingSeq(S) ==
    [j \in 1 .. Cardinality(S) |->
        CHOOSE p \in S : Cardinality({q \in S : q < p}) = j - 1]

\* the region record generatePbnImage has built for the pixel set S of img
RegionOf(S, img) ==
    LET xs == {p % img.width : p \in S}
        ys == {p \div img.width : p \in S}
    IN  [id |-> 1, pixels |-> AscendingSeq(S),
         sumR |-> 0, sumG |-> 0, sumB |-> 0,
         minX |-> CHOOSE x \in xs : \A o \in xs : x <= o,
         minY |-> CHOOSE y \in ys : \A o \in ys : y <= o,
         maxX |-> CHOOSE x \in xs : \A o \in xs : x >= o,
         maxY |-> CHOOSE y \in ys : \A o \in ys : y >= o,
         color |-> 0]

\* the pixels of the solid rectangle of w x h pixels at (x0, y0)
RectanglePixels(x0, y0, w, h, width) ==
    {(y0 + dy) * width + x0 + dx : <<dx, dy>> \in Range0(w) \X Range0(h)}

BlankRaster(w, h) == Raster(w, h, [p \in Range0(w * h) |-> Dark])

\* every non-empty pixel set of a small image ...
AnyShapeRegions ==
    UNION {{[img |-> BlankRaster(w, h), pixels |-> S] :
               S \in (SUBSET Range0(w * h)) \ {{}}} :
           <<w, h>> \in {d \in (1 .. MaxLabelArea) \X (1 .. MaxLabelArea) :
                            d[1] * d[2] <= MaxLabelArea}}

\* ... and every solid rectangle of a wider image
RectangleRegions ==
    UNION {{[img |-> BlankRaster(W, H),
             pixels |-> RectanglePixels(r[1], r[2], r[3], r[4], W)] :
               r \in {q \in Range0(W) \X Range0(H) \X (1 .. W) \X (1 .. H) :
                         q[1] + q[3] <= W /\ q[2] + q[4] <= H}} :
           <<W, H>> \in (1 .. MaxRectWidth) \X (1 .. MaxRectHeight)}

InitLabel ==
    /\ pc = "label"
    /\ \E r \in AnyShapeRegions \cup RectangleRegions :
          /\ imageData = r.img
          /\ initialRegions = (1 :> RegionOf(r.pixels, r.img))
    /\ initialRegionMap = <<>> /\ regionId = 1 /\ scan = 0 /\ stack = <<>>
    /\ sortedRegionIds = <<>> /\ mergePos = 1 /\ mergeLog = NoMerge
    /\ options = NoOptions
    /\ k = 0
    /\ colors = <<>>
    /\ KmeansIdle /\ OutputIdle /\ PageIdle
    /\ exception = ""
    /\ posted = <<>>

\* lines 428-433: the label position of the region is computed and drawn
PlaceLabel ==
    /\ pc = "label"
    /\ pbn' = [edges |-> {}, labels |-> Labels(initialRegions, imageData.width, 0)]
    /\ pc' = "labelled"
    /\ UNCHANGED <<pageVars, requestVars, kmeansVars, regionVars, colors, colored,
                   exception, posted>>

NextLabel == PlaceLabel

SpecLabel == InitLabel /\ [][NextLabel]_vars

\* --------------------------------------------- applyMedianFilter(imageData) ----
\* RGBA pixel values
DarkTranslucent == <<10, 10, 10, 128>>
WhiteOpaque == <<255, 255, 255, 255>>

\* line 206
IsBorder(x, y, width, height) ==
    x = 0 \/ x = width - 1 \/ y = 0 \/ y = height - 1

\* lines 214-221: the pixel indices of the 3x3 window around (x, y)
Window(x, y, width) ==
    {(y + j) * width + (x + i) : <<i, j>> \in ((0 - 1) .. 1) \X ((0 - 1) .. 1)}

\* lines 222-227: element 4 (0-based) of the window's channel values sorted
\* ascending
MedianChannel(data, window, c) ==
    CHOOSE v \in {data[p][c] : p \in window} :
        /\ Cardinality({p \in window : data[p][c] < v}) <= 4
        /\ Cardinality({p \in window : data[p][c] <= v}) >= 5

\* a filter that leaves the border pixels at the new raster's initial value
FilterPixelBorderBlank(img, p) ==
    LET x == p % img.width
        y == p \div img.width
        window == Window(x, y, img.width)
    IN  IF IsBorder(x, y, img.width, img.height) THEN <<0, 0, 0, 0>>
        ELSE <<MedianChannel(img.data, window, 1),
               MedianChannel(img.data, window, 2),
               MedianChannel(img.data, window, 3), 255>>

\* lines 205-228: the output pixel at index p
FilterPixel(img, p) ==
    LET x == p % img.width
        y == p \div img.width
        window == Window(x, y, img.width)
    IN  IF IsBorder(x, y, img.width, img.height) THEN img.data[p]
        ELSE <<MedianChannel(img.data, window, 1),
               MedianChannel(img.data, window, 2),
               MedianChannel(img.data, window, 3), 255>>

\* lines 196-232
applyMedianFilter(img) ==
    Raster(img.width, img.height,
           [p \in Range0(img.width * img.height) |-> FilterPixel(img, p)])

\* the rasters with an interior pixel, of up to MaxFilterArea pixels, and
\* those of border pixels only, of up to MaxBorderArea pixels
FilterRasters ==
    UNION {AllRasters(w, h, {DarkTranslucent, WhiteOpaque}) :
           <<w, h>> \in {d \in (1 .. MaxFilterArea) \X (1 .. MaxFilterArea) :
                            /\ d[1] * d[2] <= MaxFilterArea
                            /\ Min2(d[1], d[2]) >= 3 \/ d[1] * d[2] <= MaxBorderArea}}

InitFilter ==
    /\ pc = "filter"
    /\ imageData \in FilterRasters
    /\ options = NoOptions
    /\ k = 0
    /\ colors = <<>>
    /\ KmeansIdle /\ RegionsIdle /\ OutputIdle /\ PageIdle
    /\ exception = ""
    /\ posted = <<>>

\* the filter is applied to the raster
FilterOnce ==
    /\ pc = "filter"
    /\ colored' = applyMedianFilter(imageData).data
    /\ pc' = "filtered"
    /\ UNCHANGED <<pageVars, requestVars, kmeansVars, regionVars, colors, pbn,
                   exception, posted>>

\* the filter is applied to its own output
FilterAgain ==
    /\ pc = "filtered"
    /\ \E output \in {Raster(imageData.width, imageData.height, colored)} :
          /\ imageData' = output
          /\ colored' = applyMedianFilter(output).data
    /\ pc' = "refiltered"
    /\ UNCHANGED <<pageVars, k, options, kmeansVars, regionVars, colors, pbn,
                   exception, posted>>

NextFilter == FilterOnce \/ FilterAgain

SpecFilter == InitFilter /\ [][NextFilter]_vars

\* ------------------------------------- samplePixels(pixels, sampleSize) on its own ----
InitSample ==
    /\ pc = "sample"
    /\ imageData \in UNION {AllRasters(n, 1, {Dark, White}) : n \in 1 .. MaxSampleLen}
    /\ options \in [sampleSize : 1 .. MaxSampleSize]
    /\ k = 0
    /\ colors = <<>>
    /\ KmeansIdle /\ RegionsIdle /\ OutputIdle /\ PageIdle
    /\ exception = ""
    /\ posted = <<>>

\* lines 7-8 with the sample size as a parameter
Sample ==
    /\ pc = "sample"
    /\ pixels' = samplePixels(getPixels(imageData), options.sampleSize)
    /\ pc' = "sampled"
    /\ UNCHANGED <<pageVars, requestVars, kk, centroids, usedIndices, iterations,
                   lastCentroids, clusters, regionVars, colors, outputVars,
                   exception, posted>>

NextSample == Sample

SpecSample == InitSample /\ [][NextSample]_vars

\* kmeans runs to completion once called: every step of its loops is taken,
\* and the seeding loop eventually draws an index it has not used
FairSpecPalette ==
    SpecPalette /\ WF_vars(KmeansPick \/ KmeansStart \/ KmeansIterate \/ KmeansExit)

\* ------------------------------------------- merging among three colours
\* generatePbnImage on small rasters over three colours with palettes of two
\* or three colours, so that a merge candidate can have neighbours of two
\* colours other than its own
MergeRasters ==
    UNION {AllRasters(w, h, RegionColors) :
           <<w, h>> \in {d \in (1 .. MaxMergeArea) \X (1 .. MaxMergeArea) :
                            d[1] * d[2] <= MaxMergeArea}}

MergePalettes ==
    {SortByLuminance(f) :
        f \in UNION {{g \in [1 .. n -> RegionColors] :
                        \A i, j \in 1 .. n : i # j => g[i] # g[j]} :
                     n \in 2 .. 3}}

InitMerge ==
    /\ pc = "pbn_start"
    /\ imageData \in MergeRasters
    /\ colors \in MergePalettes
    /\ options \in RegionOptions
    /\ k = Len(colors)
    /\ KmeansIdle /\ RegionsIdle /\ OutputIdle /\ PageIdle
    /\ exception = ""
    /\ posted = <<>>

SpecMerge == InitMerge /\ [][NextRegions]_vars


\* ------------------------------------------ smoothing the quantized raster
\* The pipeline variant that smooths before re-segmenting: steps 5 and 6 of
\* its generatePbnImage build a raster in which every pixel carries the
\* palette colour of its region, opaque, and pass it to applyMedianFilter,
\* which is the function of worker.js lines 196-232.
SmoothPalettes == {<<Red, Green>>, <<Red, Green, Blue>>}

\* step 5: the rasters over the palette's colours, all opaque; those with an
\* interior pixel of up to MaxSmoothArea pixels and those of border pixels
\* only of up to MaxFlatArea pixels
QuantizedRasters(cols) ==
    UNION {AllRasters(w, h, {c \o <<255>> : c \in SeqToSet(cols)}) :
           <<w, h>> \in {d \in (1 .. MaxSmoothArea) \X (1 .. MaxSmoothArea) :
                            /\ d[1] * d[2] <= MaxSmoothArea
                            /\ Min2(d[1], d[2]) >= 3 \/ d[1] * d[2] <= MaxFlatArea}}

InitSmooth ==
    /\ pc = "smooth"
    /\ colors \in SmoothPalettes
    /\ imageData \in QuantizedRasters(colors)
    /\ options = NoOptions
    /\ k = Len(colors)
    /\ KmeansIdle /\ RegionsIdle /\ OutputIdle /\ PageIdle
    /\ exception = ""
    /\ posted = <<>>

\* step 6: the quantized raster is smoothed
Smooth ==
    /\ pc = "smooth"
    /\ colored' = applyMedianFilter(imageData).data
    /\ pc' = "smoothed"
    /\ UNCHANGED <<pageVars, requestVars, kmeansVars, regionVars, colors, pbn,
                   exception, posted>>

NextSmooth == Smooth

SpecSmooth == InitSmooth /\ [][NextSmooth]_vars


\* ------------------------------------------------------ the page, script.js
\* The pixels of a raster are known by what they show: the view, the image
\* it was made from and the colour count it was made with.  processImage's
\* locals imageData and k are the variables of the same name.

\* the files the user can choose: image i is i pixels wide and 2 high
PageImage(i) == [id |-> i, width |-> i, height |-> 2]

\* the values the user can enter in the colour-count input
ColorCounts == 0 .. MaxColorCount

\* lines 28, 60, 618: drawImage(img, 0, 0)
OriginalPixels(img) == [view |-> "original", image |-> img.id, k |-> 0]

\* lines 56-61: the raster read back from the temporary canvas
SourceRaster(img, visible) == Raster(img.width, img.height, OriginalPixels(img))

\* lines 140-173: kmeans reads clusters[0] of an empty array when k < 1, and
\* centroids[i] beyond the pixels it could pick when k exceeds their number
KmeansThrows(raster, kv) == kv < 1 \/ kv > raster.width * raster.height

\* lines 617-626: what switchView(view) leaves on the visible canvas
ViewContent(view, img, coloredData, pbnData, visible) ==
    CASE view = "original" -> IF img # NoImage THEN OriginalPixels(img) ELSE visible
      [] view = "quantized" -> IF coloredData # NoData THEN coloredData ELSE visible
      [] view = "pbn" -> IF pbnData # NoData THEN pbnData ELSE visible

\* lines 52-81: processImage() with originalImage = img, the input's value
\* kv and the visible canvas as the caller left it; an exception of kmeans
\* ends the handler
processImage(img, kv, visible) ==
    IF img = NoImage
    THEN /\ canvas' = visible
         /\ UNCHANGED <<imageData, k, exception, pbnImageData,
                        coloredRegionsImageData, currentView>>
    ELSE /\ imageData' = SourceRaster(img, visible)
         /\ k' = kv
         /\ IF KmeansThrows(SourceRaster(img, visible), kv)
            THEN /\ exception' = "Cannot read properties of undefined"
                 /\ canvas' = visible
                 /\ UNCHANGED <<pbnImageData, coloredRegionsImageData, currentView>>
            ELSE /\ exception' = ""
                 /\ pbnImageData' = [view |-> "pbn", image |-> img.id, k |-> kv]
                 /\ coloredRegionsImageData'
                       = [view |-> "quantized", image |-> img.id, k |-> kv]
                 /\ currentView' = currentView
                 /\ canvas' = ViewContent(currentView, img,
                                          coloredRegionsImageData', pbnImageData',
                                          visible)

\* lines 20-34: a file is chosen; it is read and decoded in the background
ChooseFile(i) ==
    /\ i \notin loading
    /\ loading' = loading \cup {i}
    /\ UNCHANGED <<pc, options, kmeansVars, regionVars, colors, outputVars,
                   posted, imageData, k, exception, originalImage,
                   currentView, canvas, colorCountInput, pbnImageData,
                   coloredRegionsImageData>>

\* lines 24-30: img.onload
ImageLoaded(i) ==
    /\ i \in loading
    /\ loading' = loading \ {i}
    /\ originalImage' = PageImage(i)
    /\ processImage(PageImage(i), colorCountInput, OriginalPixels(PageImage(i)))
    /\ UNCHANGED <<pc, options, kmeansVars, regionVars, colors, outputVars,
                   posted, colorCountInput>>

\* lines 36-40: the colour count is changed to v
ColorCountChanged(v) ==
    /\ v # colorCountInput
    /\ colorCountInput' = v
    /\ IF originalImage # NoImage
       THEN processImage(originalImage, v, canvas)
       ELSE UNCHANGED <<imageData, k, exception, canvas, pbnImageData,
                        coloredRegionsImageData, currentView>>
    /\ UNCHANGED <<pc, options, kmeansVars, regionVars, colors, outputVars,
                   posted, originalImage, loading>>

\* lines 42-44, 613-627: a view button is clicked
SwitchView(view) ==
    /\ currentView' = view
    /\ canvas' = ViewContent(view, originalImage, coloredRegionsImageData,
                             pbnImageData, canvas)
    /\ UNCHANGED <<pc, options, kmeansVars, regionVars, colors, outputVars,
                   posted, imageData, k, exception, originalImage,
                   colorCountInput, pbnImageData, coloredRegionsImageData,
                   loading>>

InitPage ==
    /\ pc = "page"
    /\ imageData = NoRaster
    /\ k = 0
    /\ options = NoOptions
    /\ KmeansIdle /\ RegionsIdle /\ OutputIdle
    /\ colors = <<>>
    /\ exception = ""
    /\ posted = <<>>
    /\ originalImage = NoImage /\ currentView = "original" /\ canvas = Blank
    /\ colorCountInput \in ColorCounts
    /\ pbnImageData = NoData /\ coloredRegionsImageData = NoData
    /\ loading = {}

NextPage ==
    \/ \E i \in 1 .. MaxImages : ChooseFile(i)
    \/ \E i \in 1 .. MaxImages : ImageLoaded(i)
    \/ \E v \in ColorCounts : ColorCountChanged(v)
    \/ \E view \in {"original", "quantized", "pbn"} : SwitchView(view)

SpecPage == InitPage /\ [][NextPage]_vars


\* ================================================================== claims
ZeroArea == imageData.width * imageData.height = 0

\* at most one message is ever posted, and a finished run posted the message
\* that matches how it ended
ResponseMatches ==
    /\ Len(posted) <= 1
    /\ (Len(posted) = 1 <=> pc = "done")
    /\ (pc = "done" /\ exception = ""
          => /\ posted[1].type = "success"
             /\ posted[1].dominantColors = colors
             /\ posted[1].pbnImageData = pbn
             /\ posted[1].coloredRegionsImageData = colored)
    /\ (pc = "done" /\ exception # ""
          => /\ posted[1].type = "error"
             /\ posted[1].message = exception)

\* C1: every request handled by onmessage gets exactly one response: a
\* success message when every stage completed, otherwise an error message
\* carrying the exception's message; never both, and never none.
ExactlyOneResponse == []ResponseMatches /\ <>(pc = "done")

\* a run that threw was answered by one error message
ErrorAnswered ==
    /\ pc = "done" /\ exception # ""
    /\ Len(posted) = 1 /\ posted[1].type = "error"

KmeansNeverThrows ==
    /\ pc # "thrown"
    /\ (pc = "kmeans_done" => Len(centroids) <= kk)

FourColors == <<Red, Green, Blue, Yellow>>

\* the 1-based position of colour c in the luminance order of FourColors
LuminanceRank(c) ==
    1 + Cardinality({d \in SeqToSet(FourColors) : Luminance(d) < Luminance(c)})

\* C4: a 2x2 image of 4 distinct saturated colours with k = 4 ends in a
\* success response whose palette is exactly those 4 colours, with 4 regions
\* of one pixel each, labelled 1 to 4 in luminance order.
FourColorScenario ==
    (pc = "done" /\ imageData \in RotatedRasters(FourColors) /\ k = 4)
        => /\ posted[1].type = "success"
           /\ posted[1].dominantColors = SortByLuminance(FourColors)
           /\ Cardinality(DOMAIN initialRegions) = 4
           /\ \A id \in DOMAIN initialRegions : Len(initialRegions[id].pixels) = 1
           /\ {[text |-> l.text, x |-> l.x, y |-> l.y] : l \in posted[1].pbnImageData.labels}
                = {[text |-> LuminanceRank(imageData.data[p]),
                    x |-> p % 2, y |-> p \div 2] : p \in Range0(4)}

IsUniform(img) ==
    /\ img.width * img.height >= 1
    /\ \A p \in DOMAIN img.data : img.data[p] = img.data[0]

\* C5: a uniform single-colour N x M image with any k >= 1 and any
\* minRegionSize ends in a success response with a palette of one effective
\* colour, one region covering all N*M pixels, and one label at the
\* geometric centre of the image.
UniformScenario ==
    (pc = "done" /\ IsUniform(imageData) /\ k >= 1)
        => /\ posted[1].type = "success"
           /\ SeqToSet(posted[1].dominantColors) = {imageData.data[0]}
           /\ Cardinality(DOMAIN initialRegions) = 1
           /\ \A id \in DOMAIN initialRegions :
                 SeqToSet(initialRegions[id].pixels) = DOMAIN imageData.data
           /\ {[x |-> l.x, y |-> l.y] : l \in posted[1].pbnImageData.labels}
                = {[x |-> RoundDiv(imageData.width - 1, 2),
                    y |-> RoundDiv(imageData.height - 1, 2)]}

\* the colours generateOptimalPalette chooses among: every centroid when
\* there are at most k, the centroids of the non-empty clusters otherwise
CandidateColors ==
    IF Len(centroids) <= k THEN SeqToSet(centroids)
    ELSE SeqToSet(Candidates(centroids, clusters.val))

\* C6: generateOptimalPalette returns exactly min(k, number of distinct
\* candidate colours) colours: never more than k, never one colour twice.
PaletteSizeExact ==
    pc = "pbn_start"
        => /\ Len(colors) = Min2(k, Cardinality(CandidateColors))
           /\ Len(colors) <= k
           /\ \A i, j \in 1 .. Len(colors) : i # j => colors[i] # colors[j]

\* C7: the palette generateOptimalPalette returns is sorted by non-decreasing
\* luminance, both when every centroid is returned and after the greedy
\* reduction.
PaletteSorted ==
    pc = "pbn_start"
        => \A i \in 1 .. (Len(colors) - 1) :
              Luminance(colors[i]) <= Luminance(colors[i + 1])

\* the greedy reduction ran and the final sort reordered its selection
PaletteReordered ==
    /\ pc = "pbn_start"
    /\ Len(centroids) > k
    /\ Len(colors) >= 2
    /\ SelectPalette(centroids, clusters.val, k) # colors
    /\ Luminance(colors[1]) < Luminance(colors[2])

Occurrences(seq, x) == Cardinality({j \in 1 .. Len(seq) : seq[j] = x})

AfterGrowing == pc \in {"merge", "draw", "color", "pbn_done"}

\* C8: after region growing and before any merge the region pixel lists
\* partition the image: every pixel index is exactly once in exactly one
\* region's list, and the region map sends the pixel to that region.
GrowingPartitions ==
    pc = "grown"
        => /\ \A id \in DOMAIN initialRegions :
                 SeqToSet(initialRegions[id].pixels) \subseteq DOMAIN initialRegionMap
           /\ \A p \in DOMAIN initialRegionMap :
                 /\ Cardinality({id \in DOMAIN initialRegions :
                        Occurrences(initialRegions[id].pixels, p) > 0}) = 1
                 /\ initialRegionMap[p] \in DOMAIN initialRegions
                 /\ Occurrences(initialRegions[initialRegionMap[p]].pixels, p) = 1

\* growing ended with several regions, one of them of several pixels
GrownSeveralRegions ==
    /\ pc = "grown"
    /\ Cardinality(DOMAIN initialRegions) >= 2
    /\ \E id \in DOMAIN initialRegions : Len(initialRegions[id].pixels) >= 2

RECURSIVE SumOfSizes(_, _)
SumOfSizes(regions, ids) ==
    IF ids = {} THEN 0
    ELSE LET id == CHOOSE i \in ids : TRUE
         IN  Len(regions[id].pixels) + SumOfSizes(regions, ids \ {id})

\* C9: after every step of the merge pass, and at its end, the pixel counts
\* of the live regions add up to width*height.
MergePreservesPixelCount ==
    AfterGrowing
        => SumOfSizes(initialRegions, DOMAIN initialRegions)
              = imageData.width * imageData.height

\* a merge step has just folded a region into a neighbour
MergeHappened ==
    /\ pc = "merge"
    /\ mergeLog.target # 0 - 1
    /\ mergeLog.id \notin DOMAIN initialRegions

\* C10: throughout the merge pass every region map entry is the id of a live
\* region, and the pixels mapped to a live region's id are exactly that
\* region's pixel list; no pixel stays mapped to a deleted region.
MapResolvesToLiveRegions ==
    AfterGrowing
        => /\ \A p \in DOMAIN initialRegionMap :
                 initialRegionMap[p] \in DOMAIN initialRegions
           /\ \A id \in DOMAIN initialRegions :
                 {p \in DOMAIN initialRegionMap : initialRegionMap[p] = id}
                    = SeqToSet(initialRegions[id].pixels)

\* two merges in a row: a region that had absorbed another was merged away
MergedTwice ==
    /\ pc = "merge"
    /\ mergeLog.target # 0 - 1
    /\ Cardinality(DOMAIN initialRegions) + 2 <= Len(sortedRegionIds)
    /\ Len(initialRegions[mergeLog.target].pixels) >= 3

LabelledRegion == initialRegions[1]

RegionWidth(region) == region.maxX - region.minX + 1

RegionHeight(region) == region.maxY - region.minY + 1

IsSolidOddRectangle(region) ==
    /\ Len(region.pixels) = RegionWidth(region) * RegionHeight(region)
    /\ RegionWidth(region) % 2 = 1
    /\ RegionHeight(region) % 2 = 1

\* C11: for a region that is a solid w x h rectangle with w and h odd,
\* anywhere in an image of any width (also spanning the full width),
\* findBestLabelPosition returns the exact centre pixel of the rectangle.
RectangleLabelCentred ==
    (pc = "labelled" /\ IsSolidOddRectangle(LabelledRegion))
        => pbn.labels =
              {[id |-> 1, text |-> 1,
                x |-> LabelledRegion.minX + (RegionWidth(LabelledRegion) - 1) \div 2,
                y |-> LabelledRegion.minY + (RegionHeight(LabelledRegion) - 1) \div 2]}

\* a 3 x 3 rectangle spanning the full width of the image was labelled
FullWidthRectangleLabelled ==
    /\ pc = "labelled"
    /\ IsSolidOddRectangle(LabelledRegion)
    /\ RegionWidth(LabelledRegion) = 3 /\ RegionHeight(LabelledRegion) = 3
    /\ imageData.width = 3
    /\ pbn.labels # {}

Rgb(px) == <<px[1], px[2], px[3]>>

InteriorPixels(img) ==
    {p \in Range0(img.width * img.height) :
        ~IsBorder(p % img.width, p \div img.width, img.width, img.height)}

\* every 3x3 window around an interior pixel is constant in R, G and B
LocallyConstant(img) ==
    \A p \in InteriorPixels(img) :
        \A q \in Window(p % img.width, p \div img.width, img.width) :
            Rgb(img.data[q]) = Rgb(img.data[p])

\* C12: on a raster whose 3x3 windows around interior pixels are constant in
\* R, G and B, applyMedianFilter keeps the RGB values of every pixel, and
\* applied to its own output it returns that output.
MedianFilterIdempotent ==
    /\ (pc = "filtered" /\ LocallyConstant(imageData))
          => \A p \in DOMAIN colored : Rgb(colored[p]) = Rgb(imageData.data[p])
    /\ (pc = "refiltered" /\ LocallyConstant(imageData))
          => colored = imageData.data

\* the filter ran twice on a locally constant raster that has an interior
\* pixel and a translucent border pixel
InteriorRefiltered ==
    /\ pc = "refiltered"
    /\ LocallyConstant(imageData)
    /\ InteriorPixels(imageData) # {}
    /\ \E p \in DOMAIN colored : colored[p][4] # 255

\* C13: for a pixel list of length N and a sample size S >= 1, samplePixels
\* returns exactly min(N, S) pixels, and all pixels in their order when
\* N <= S.
SampleLengthExact ==
    pc = "sampled"
        => /\ Len(pixels) = Min2(Len(getPixels(imageData)), options.sampleSize)
           /\ (Len(getPixels(imageData)) <= options.sampleSize
                  => pixels = getPixels(imageData))

Sub(a, b) == <<a[1] - b[1], a[2] - b[2], a[3] - b[3]>>

Dot(a, b) == a[1] * b[1] + a[2] * b[2] + a[3] * b[3]

Cross(a, b) ==
    <<a[2] * b[3] - a[3] * b[2], a[3] * b[1] - a[1] * b[3], a[1] * b[2] - a[2] * b[1]>>

Sign(n) == IF n > 0 THEN 1 ELSE IF n < 0 THEN 0 - 1 ELSE 0

\* p lies on the segment from a to b
InSegment(p, a, b) ==
    /\ Cross(Sub(b, a), Sub(p, a)) = <<0, 0, 0>>
    /\ Dot(Sub(p, a), Sub(b, a)) >= 0
    /\ Dot(Sub(p, a), Sub(b, a)) <= Dot(Sub(b, a), Sub(b, a))
    /\ a = b => p = a

\* v is a non-negative multiple of n, for v parallel to n
SameDirection(v, n) == \A c \in 1 .. 3 : v[c] * Sign(n[c]) >= 0

\* p lies in the triangle a, b, d (a segment or a point when degenerate)
InTriangle(p, a, b, d) ==
    LET n == Cross(Sub(b, a), Sub(d, a))
    IN  IF n = <<0, 0, 0>>
        THEN InSegment(p, a, b) \/ InSegment(p, a, d) \/ InSegment(p, b, d)
        ELSE /\ Dot(n, Sub(p, a)) = 0
             /\ SameDirection(Cross(Sub(b, a), Sub(p, a)), n)
             /\ SameDirection(Cross(Sub(d, b), Sub(p, b)), n)
             /\ SameDirection(Cross(Sub(a, d), Sub(p, d)), n)

\* p lies in the convex hull of the colours S, for S of at most 3 colours
InHull(p, S) == \E a, b, d \in S : InTriangle(p, a, b, d)

\* C14: in the result of kmeans each returned centroid lies in the convex
\* hull of the colours of the cluster returned for it.
CentroidsInHull ==
    pc = "kmeans_done"
        => \A i \in 1 .. Len(centroids) :
              /\ i <= Len(clusters.val)
              /\ InHull(centroids[i], SeqToSet(clusters.val[i]))

\* the region whose turn it is in the merge loop
RegionAtTurn == initialRegions[sortedRegionIds[mergePos]]

\* a merge-loop iteration on a region that is still live
TurnOfLiveRegion ==
    /\ pc = "merge"
    /\ mergePos <= Len(sortedRegionIds)
    /\ mergePos' = mergePos + 1
    /\ sortedRegionIds[mergePos] \in DOMAIN initialRegions

\* max(w, h) / min(w, h) > thinnessThreshold for the region's own bounding box
ThinByOwnBox(region, thinnessThreshold) ==
    Max2(RegionWidth(region), RegionHeight(region))
        > thinnessThreshold * Min2(RegionWidth(region), RegionHeight(region))

\* C15: a region is treated as a merge candidate exactly when its pixel
\* count is below minRegionSize or the aspect ratio of its own bounding box
\* exceeds thinnessThreshold; a region that is neither is not merged away at
\* its turn.
CandidateBySizeOrOwnBox ==
    [][TurnOfLiveRegion
          => LET candidate ==
                    \/ Len(RegionAtTurn.pixels) < options.minRegionSize
                    \/ ThinByOwnBox(RegionAtTurn, options.thinnessThreshold)
             IN  /\ mergeLog'.candidate <=> candidate
                 /\ ~candidate => sortedRegionIds[mergePos] \in DOMAIN initialRegions']_vars

\* pixels p and q are 4-adjacent in an image of the given width
Adjacent4(p, q, width) ==
    \/ ((p \div width) = (q \div width) /\ ((p % width) - (q % width)) \in {0 - 1, 1})
    \/ ((p % width) = (q % width) /\ ((p \div width) - (q \div width)) \in {0 - 1, 1})

\* C16: the region a merge candidate is folded into is a live region other
\* than the candidate that owns a pixel 4-adjacent to one of the
\* candidate's pixels; the end of a row is not adjacent to the start of the
\* next row.
MergeTargetAdjacent ==
    [][(TurnOfLiveRegion /\ mergeLog'.target # 0 - 1)
          => /\ mergeLog'.target \in DOMAIN initialRegions
             /\ mergeLog'.target # sortedRegionIds[mergePos]
             /\ \E p \in SeqToSet(RegionAtTurn.pixels) :
                   \E q \in SeqToSet(initialRegions[mergeLog'.target].pixels) :
                      Adjacent4(p, q, imageData.width)]_vars

\* C17: for every non-empty region findBestLabelPosition returns the
\* coordinates of a pixel of the region, also for non-convex regions.
LabelInsideRegion ==
    pc = "labelled"
        => \A l \in pbn.labels :
              /\ l.x \in Range0(imageData.width)
              /\ (l.y * imageData.width + l.x) \in SeqToSet(LabelledRegion.pixels)

\* C18: the convergence test at the end of the first iteration of kmeans is
\* negative, so kmeans does not stop as converged before a second iteration.
FirstIterationNotConverged ==
    [][(pc = "kmeans_loop" /\ ~lastCentroids.def) => pc' # "kmeans_done"]_vars

\* every old/new centroid pair of the step is at Euclidean distance at most 1
AllCentroidsClose ==
    \A i \in 1 .. kk : SqDist(centroids[i], centroids'[i]) <= 1

\* an iteration of the main loop on a sample of at least k pixels
MainLoopIteration ==
    /\ pc = "kmeans_loop"
    /\ kk <= Len(pixels)
    /\ iterations < maxIterations

\* C19: for a non-empty sample and 1 <= k <= sample size the main loop of
\* kmeans runs at most 30 iterations, stops as soon as every old/new
\* centroid pair is at distance at most 1, and terminates whatever the
\* reseeding of empty clusters draws.
KmeansLoopBounded ==
    /\ [](iterations <= maxIterations)
    /\ [][MainLoopIteration
             => /\ (pc' = "kmeans_done") <=> AllCentroidsClose
                /\ pc' # "kmeans_done" => iterations' = iterations + 1]_vars
    /\ ((pc = "kmeans_loop" /\ kk <= Len(pixels)) ~> (pc = "kmeans_done"))

\* the loop was left after 30 iterations without converging
IterationLimitReached ==
    /\ pc = "kmeans_done"
    /\ kk <= Len(pixels)
    /\ iterations = maxIterations

\* the indices of the centroids whose cluster is not empty
NonEmptyClusters(cs, cl) ==
    {i \in 1 .. Len(cs) : i <= Len(cl) /\ Len(cl[i]) > 0}

\* sel lists the centroids idx[1], idx[2], ... in an order in which the first
\* has a largest cluster and each later one is, among the candidates not yet
\* taken, one whose minimum distance to the colours before it is maximal
IsGreedyOrder(sel, idx, cs, cl) ==
    /\ \A i, j \in 1 .. Len(sel) : i # j => idx[i] # idx[j]
    /\ \A j \in 1 .. Len(sel) :
          idx[j] \in NonEmptyClusters(cs, cl) /\ sel[j] = cs[idx[j]]
    /\ \A i \in NonEmptyClusters(cs, cl) : Len(cl[i]) <= Len(cl[idx[1]])
    /\ \A j \in 2 .. Len(sel) :
          \A i \in NonEmptyClusters(cs, cl) \ {idx[h] : h \in 1 .. (j - 1)} :
              MinSqDistToPalette(cs[i], SubSeq(sel, 1, j - 1))
                  <= MinSqDistToPalette(sel[j], SubSeq(sel, 1, j - 1))

\* the colours in the order generateOptimalPalette selected them
Selection == SelectPalette(centroids, clusters.val, k)

\* C20: with more centroids than k, generateOptimalPalette first selects the
\* centroid of a largest non-empty cluster, then repeatedly a remaining
\* candidate whose minimum distance to the colours selected so far is
\* maximal, until k colours are chosen or no candidate remains; centroids of
\* empty clusters are never selected.
GreedySelection ==
    (pc = "pbn_start" /\ Len(centroids) > k)
        => /\ Len(Selection)
                 = Min2(k, Cardinality(NonEmptyClusters(centroids, clusters.val)))
           /\ \E idx \in [1 .. Len(Selection) -> 1 .. Len(centroids)] :
                 IsGreedyOrder(Selection, idx, centroids, clusters.val)
           /\ colors = SortByLuminance(Selection)

\* three candidates for two colours: the second colour selected was the
\* farthest candidate, not the next one by cluster size
FarthestCandidateSelected ==
    /\ pc = "pbn_start"
    /\ Len(centroids) > k
    /\ k = 2
    /\ Cardinality(NonEmptyClusters(centroids, clusters.val)) = 3
    /\ Selection[2] # Candidates(centroids, clusters.val)[2]

\* the colour distance of pixels p and q of the image is strictly below
\* colorThreshold
CloseInColor(p, q) ==
    /\ options.colorThreshold > 0
    /\ SqDist(imageData.data[p], imageData.data[q])
          < options.colorThreshold * options.colorThreshold

\* the pixels of S reachable from the pixels of R by 4-adjacent steps in S
RECURSIVE Reachable(_, _, _)
Reachable(R, S, width) ==
    LET next == R \cup {q \in S : \E p \in R : Adjacent4(p, q, width)}
    IN  IF next = R THEN R ELSE Reachable(next, S, width)

\* the seed of a region: the first pixel of its list
SeedOf(region) == region.pixels[1]

GrownRegionsSound ==
    pc = "grown"
        => \A id \in DOMAIN initialRegions :
              LET region == initialRegions[id]
                  S == SeqToSet(region.pixels)
              IN  /\ \A p \in S : p = SeedOf(region) \/ CloseInColor(SeedOf(region), p)
                  /\ Reachable({SeedOf(region)}, S, imageData.width) = S
                  /\ \A p \in S : SeedOf(region) <= p
                  /\ \A q \in DOMAIN initialRegionMap \ S :
                        ((\E p \in S : Adjacent4(p, q, imageData.width))
                            /\ CloseInColor(SeedOf(region), q))
                           => initialRegionMap[q] < id

\* a flood-fill step: the pixel on top of the stack is popped
FillStep == pc = "fill" /\ Len(stack) > 0 /\ stack' # stack

\* C21: in region growing a pixel joins the region being grown if and only
\* if it is unassigned, 4-adjacent (without wrapping across row ends) to a
\* pixel of the region, and strictly closer than colorThreshold to the
\* seed's colour; so every non-seed pixel of a region is within
\* colorThreshold of the seed, every region is 4-connected, and the seed is
\* the lowest index of its region.
GrowingJoinsIff ==
    /\ []GrownRegionsSound
    /\ [][FillStep
             => /\ {q \in DOMAIN initialRegionMap :
                       initialRegionMap[q] # initialRegionMap'[q]}
                     = {q \in DOMAIN initialRegionMap :
                          /\ initialRegionMap[q] = 0
                          /\ Adjacent4(stack[Len(stack)], q, imageData.width)
                          /\ CloseInColor(scan, q)}
                /\ \A q \in DOMAIN initialRegionMap :
                      initialRegionMap'[q] \in {initialRegionMap[q], regionId}]_vars

\* growing ended with a region of several pixels, and with two pixels of
\* like colour at the end of one row and the start of the next that are in
\* different regions
WrapNeighboursApart ==
    /\ pc = "grown"
    /\ imageData.width >= 2
    /\ \E id \in DOMAIN initialRegions : Len(initialRegions[id].pixels) >= 3
    /\ \E p \in DOMAIN initialRegionMap :
          /\ p % imageData.width = imageData.width - 1
          /\ (p + 1) \in DOMAIN initialRegionMap
          /\ CloseInColor(p, p + 1)
          /\ initialRegionMap[p] # initialRegionMap[p + 1]

\* the squared distance between the palette colours with 0-based positions
\* a and b
PaletteSqDist(a, b) == SqDist(colors[a + 1], colors[b + 1])

\* the turn of a merge candidate that has a live neighbour
TurnWithNeighbours ==
    TurnOfLiveRegion /\ mergeLog'.candidate /\ Len(mergeLog'.neighborIds) > 0

\* C22: for a merge candidate with a live neighbour, the target is the first
\* enumerated neighbour carrying the candidate's palette colour if there is
\* one, and otherwise a neighbour whose palette colour is at minimum
\* distance from the candidate's among all its neighbours.
MergeTargetByPriority ==
    [][TurnWithNeighbours
          => LET ids == mergeLog'.neighborIds
                 same == {j \in 1 .. Len(ids) :
                             initialRegions[ids[j]].color = RegionAtTurn.color}
             IN  IF same # {}
                 THEN \E j \in same : /\ mergeLog'.target = ids[j]
                                      /\ \A i \in same : j <= i
                 ELSE /\ mergeLog'.target \in SeqToSet(ids)
                      /\ \A j \in 1 .. Len(ids) :
                            PaletteSqDist(RegionAtTurn.color,
                                          initialRegions[mergeLog'.target].color)
                               <= PaletteSqDist(RegionAtTurn.color,
                                                initialRegions[ids[j]].color)]_vars

\* a candidate whose neighbours all had other colours was merged into the
\* second neighbour enumerated, which was strictly closer in colour than
\* the first
MergedIntoCloserNeighbour ==
    /\ pc = "merge"
    /\ mergeLog.candidate
    /\ Len(mergeLog.neighborIds) >= 2
    /\ mergeLog.target = mergeLog.neighborIds[2]
    /\ \A j \in 1 .. Len(mergeLog.neighborIds) :
          /\ mergeLog.neighborIds[j] \in DOMAIN initialRegions
          /\ initialRegions[mergeLog.neighborIds[j]].color # mergeLog.color
    /\ PaletteSqDist(mergeLog.color, initialRegions[mergeLog.target].color)
          < PaletteSqDist(mergeLog.color,
                          initialRegions[mergeLog.neighborIds[1]].color)

\* some pixel 4-adjacent to a pixel of the region belongs to another live
\* region
HasLiveNeighbour(region) ==
    \E p \in SeqToSet(region.pixels) :
       \E q \in DOMAIN initialRegionMap :
          /\ Adjacent4(p, q, imageData.width)
          /\ initialRegionMap[q] # region.id
          /\ initialRegionMap[q] \in DOMAIN initialRegions

\* C23: a merge candidate without a live neighbouring region is left
\* unmerged: it stays in the region table, the region map and every
\* region's pixel list, bounding box and colour are unchanged by its turn,
\* and no error is raised.
LoneCandidateUnmerged ==
    [][(TurnOfLiveRegion /\ mergeLog'.candidate /\ ~HasLiveNeighbour(RegionAtTurn))
          => /\ sortedRegionIds[mergePos] \in DOMAIN initialRegions'
             /\ initialRegions' = initialRegions
             /\ initialRegionMap' = initialRegionMap
             /\ mergeLog'.target = 0 - 1
             /\ exception' = ""
             /\ pc' = "merge"]_vars

\* the only region of the image had its turn as a merge candidate and is
\* still in the table
LoneCandidateKept ==
    /\ pc = "merge"
    /\ mergeLog.live /\ mergeLog.candidate
    /\ mergeLog.neighborIds = <<>>
    /\ mergeLog.target = 0 - 1
    /\ DOMAIN initialRegions = {mergeLog.id}
    /\ Len(initialRegions[mergeLog.id].pixels) = imageData.width * imageData.height

\* the merge pass and what follows it
FromMergeOn == pc \in {"merge", "draw", "color", "pbn_done"}

\* C24: a merge never changes the palette colour of the target or of any
\* other live region, so every live region keeps the colour assigned right
\* after growing; the target's pixel list and bounding box absorb the
\* merged region's.
MergeKeepsColours ==
    [][FromMergeOn
          => /\ \A id \in DOMAIN initialRegions' :
                   /\ id \in DOMAIN initialRegions
                   /\ initialRegions'[id].color = initialRegions[id].color
             /\ (TurnOfLiveRegion /\ mergeLog'.target # 0 - 1)
                   => LET target == initialRegions[mergeLog'.target]
                          after == initialRegions'[mergeLog'.target]
                          region == RegionAtTurn
                      IN  /\ after.pixels = target.pixels \o region.pixels
                          /\ after.minX = Min2(target.minX, region.minX)
                          /\ after.minY = Min2(target.minY, region.minY)
                          /\ after.maxX = Max2(target.maxX, region.maxX)
                          /\ after.maxY = Max2(target.maxY, region.maxY)]_vars

\* a region was merged into a region of another palette colour
MergedAcrossColours ==
    /\ pc = "merge"
    /\ mergeLog.target # 0 - 1
    /\ mergeLog.target \in DOMAIN initialRegions
    /\ mergeLog.color # NoColor
    /\ initialRegions[mergeLog.target].color # mergeLog.color

\* C29: after the merge pass, if more than one region is live then every
\* live region has at least minRegionSize pixels.
SurvivorsNotSmall ==
    (pc \in {"draw", "color", "pbn_done"} /\ Cardinality(DOMAIN initialRegions) > 1)
        => \A id \in DOMAIN initialRegions :
              Len(initialRegions[id].pixels) >= options.minRegionSize

\* the merge pass ended with several live regions after merging a region
\* that was below minRegionSize
SeveralSurvivorsAfterMerge ==
    /\ pc = "draw"
    /\ Cardinality(DOMAIN initialRegions) > 1
    /\ options.minRegionSize = 3
    /\ Cardinality(DOMAIN initialRegions) < Len(sortedRegionIds)

\* pixel p of the working set S has one of its four neighbours (left, right,
\* upper, lower) absent from S; a neighbour outside the image is absent
OnBoundary(p, S, width) ==
    \/ p % width = 0 \/ (p - 1) \notin S
    \/ p % width = width - 1 \/ (p + 1) \notin S
    \/ (p - width) \notin S
    \/ (p + width) \notin S

\* the erosion from working set S on: every step removes exactly the
\* boundary pixels and leaves a smaller, non-empty set, until every pixel
\* of the working set is on the boundary
RECURSIVE ErosionSound(_, _)
ErosionSound(S, width) ==
    LET removed == PixelsToRemove(S, width)
    IN  /\ removed = {p \in S : OnBoundary(p, S, width)}
        /\ \/ removed = S
           \/ /\ S \ removed # {}
              /\ Cardinality(S \ removed) < Cardinality(S)
              /\ ErosionSound(S \ removed, width)

\* C25: the erosion loop of findBestLabelPosition terminates for every
\* non-empty region; each step removes exactly the working-set pixels with a
\* 4-neighbour absent from the working set, strictly shrinks the set without
\* emptying it, and stops at the first set whose pixels are all on the
\* boundary, which is the set averaged; (-1,-1) is returned only for a
\* region without pixels.
ErosionRemovesBoundary ==
    pc = "labelled"
        => /\ ErosionSound(SeqToSet(LabelledRegion.pixels), imageData.width)
           /\ \A l \in pbn.labels :
                 (l.x = 0 - 1 /\ l.y = 0 - 1) <=> Len(LabelledRegion.pixels) = 0

\* the outline raster has been drawn
OutlineDrawn == pc \in {"color", "pbn_done"}

\* C26: in the outline raster a label is drawn for a region if and only if
\* the region is live after merging and has at least minRegionSize pixels;
\* the number is the 1-based palette position of the region's colour, in
\* 1 .. palette length, and no label is drawn at (-1,-1).
LabelsForLargeLiveRegions ==
    OutlineDrawn
        => /\ {l.id : l \in pbn.labels}
                 = {id \in DOMAIN initialRegions :
                       Len(initialRegions[id].pixels) >= options.minRegionSize}
           /\ \A l, m \in pbn.labels : l.id = m.id => l = m
           /\ \A l \in pbn.labels :
                 /\ l.text \in 1 .. Len(colors)
                 /\ l.text - 1 = initialRegions[l.id].color
                 /\ ~(l.x = 0 - 1 /\ l.y = 0 - 1)
                 /\ l.x >= 0 /\ l.y >= 0

\* after a merge, two regions were labelled with different numbers
TwoNumbersDrawn ==
    /\ pc = "color"
    /\ Cardinality(DOMAIN initialRegions) < Len(sortedRegionIds)
    /\ \E l, m \in pbn.labels : l.text = 1 /\ m.text = 2

\* C27: in the coloured raster every pixel carries the palette colour of the
\* live region that owns it in the region map, with alpha 255; no pixel is
\* left transparent and every pixel's RGB is a palette colour.
ColouredRasterComplete ==
    pc = "pbn_done"
        => /\ DOMAIN colored = DOMAIN initialRegionMap
           /\ \A p \in DOMAIN colored :
                 /\ initialRegionMap[p] \in DOMAIN initialRegions
                 /\ p \in SeqToSet(initialRegions[initialRegionMap[p]].pixels)
                 /\ colored[p]
                       = colors[initialRegions[initialRegionMap[p]].color + 1] \o <<255>>
                 /\ colored[p] # Transparent
                 /\ colored[p][4] = 255
                 /\ SubSeq(colored[p], 1, 3) \in SeqToSet(colors)

\* the coloured raster of a run that merged a region shows two colours
TwoColoursPainted ==
    /\ pc = "pbn_done"
    /\ Cardinality(DOMAIN initialRegions) < Len(sortedRegionIds)
    /\ \E p, q \in DOMAIN colored : colored[p] # colored[q]

\* C30: in the variant that smooths before re-segmenting, the median filter
\* applied to a raster whose pixels all carry palette colours yields a raster
\* whose pixels all carry palette colours, so that every re-segmented region
\* resolves to a palette index and is labelled.
SmoothedCarriesPalette ==
    pc = "smoothed"
        => \A p \in DOMAIN colored : SubSeq(colored[p], 1, 3) \in SeqToSet(colors)

\* a run of processImage: an image has finished loading, or the colour count
\* was changed while an image is loaded
ProcessImageRuns ==
    \/ \E i \in 1 .. MaxImages : ImageLoaded(i)
    \/ originalImage # NoImage /\ \E v \in ColorCounts : ColorCountChanged(v)

\* what the selected view shows
SelectedViewContent ==
    CASE currentView = "original" -> OriginalPixels(originalImage)
      [] currentView = "quantized" -> coloredRegionsImageData
      [] currentView = "pbn" -> pbnImageData

\* C28: in script.js, whatever the sequence of image loads, view switches and
\* colour-count changes, every run of processImage processes the pixels of
\* the loaded original image and never those of a view drawn on the visible
\* canvas; a colour-count change with no image loaded runs nothing; and
\* after a run the canvas still displays the view selected before it.
RunsFromOriginalKeepView ==
    /\ [][ProcessImageRuns
             => /\ imageData' = Raster(originalImage'.width, originalImage'.height,
                                       OriginalPixels(originalImage'))
                /\ currentView' = currentView
                /\ canvas' = SelectedViewContent']_vars
    /\ [][(originalImage = NoImage /\ \E v \in ColorCounts : ColorCountChanged(v))
             => UNCHANGED <<imageData, k, exception, canvas, pbnImageData,
                            coloredRegionsImageData, currentView>>]_vars

=============================================================================
